---- MODULE Spec2Model ----
(***************************************************************************)
(* Model of AI_Meeting_Prep/app.py: the Streamlit script (corpus build,    *)
(* "Run Agents" handler, output display), run_meeting_prep_crew and        *)
(* parse_final_output.                                                     *)
(*                                                                         *)
(* Text that is matched by the regular expression is a sequence of         *)
(* one-character strings.  The uploaded corpus, which has to exceed        *)
(* 100000 characters for the slice of line 82 to cut, is kept run-length   *)
(* encoded: a sequence of runs [ch, n] standing for n copies of ch.        *)
(***************************************************************************)
EXTENDS Integers, Sequences, FiniteSets, TLC

VARIABLES
    env_key,        \* os.environ.get("GEMINI_API_KEY") is truthy
    uploaded,       \* st.file_uploader's list, in upload order
    full_text,      \* full_text of the latest script run (run-length encoded)
    clicks,         \* presses of "Run Agents" so far
    pc,             \* "idle", or "running" while crew.kickoff() is executing
    text,           \* text = full_text[:100000], a local of the latest script run
    calls,          \* generation calls made in the latest script run: [task, input]
    results,        \* task outputs available in the latest script run
    session_state,  \* st.session_state: [has |-> "raw_output" in it, raw_output]
    message,        \* what the latest script run showed: none/warning/spinner/success/exception
    error,          \* the exception the latest script run ended with, or NoError
    parsed          \* the six panels the latest script run displayed, or NotShown

vars == <<env_key, uploaded, full_text, clicks, pc, text, calls, results,
          session_state, message, error, parsed>>

(***************************************************************************)
(* Bounds of the model.                                                    *)
(***************************************************************************)
MaxFiles == 2
MaxClicks == 2
MaxLines == 3

(***************************************************************************)
(* Characters.  WS is what \s matches and what str.strip() removes.        *)
(***************************************************************************)
WS == {" ", "\n", "\t"}

(***************************************************************************)
(* parse_final_output: the keys of `sections`, and the alternation of the  *)
(* pattern in its order.                                                   *)
(***************************************************************************)
HeaderNames ==
    <<"SUMMARY", "KEY DISCUSSION POINTS", "ACTION ITEMS",
      "SUGGESTED QUESTIONS", "RISKS AND MISSING INFO", "MEETING SCRIPT">>

HeaderChars ==
    << <<"S","U","M","M","A","R","Y">>,
       <<"K","E","Y"," ","D","I","S","C","U","S","S","I","O","N"," ","P","O","I","N","T","S">>,
       <<"A","C","T","I","O","N"," ","I","T","E","M","S">>,
       <<"S","U","G","G","E","S","T","E","D"," ","Q","U","E","S","T","I","O","N","S">>,
       <<"R","I","S","K","S"," ","A","N","D"," ","M","I","S","S","I","N","G"," ","I","N","F","O">>,
       <<"M","E","E","T","I","N","G"," ","S","C","R","I","P","T">> >>

Headers == {HeaderNames[k] : k \in 1..6}

\* sections = {"SUMMARY": "", ...}
EmptySections == [h \in Headers |-> <<>>]

\* the literal w occurs in s at position i
LiteralAt(s, i, w) ==
    /\ i + Len(w) - 1 <= Len(s)
    /\ \A k \in 1..Len(w) : s[i + k - 1] = w[k]

\* \s* is greedy: the first position from i on that holds no whitespace
SkipWs(s, i) ==
    CHOOSE j \in i..(Len(s) + 1) :
        /\ \A k \in i..(j - 1) : s[k] \in WS
        /\ j = Len(s) + 1 \/ s[j] \notin WS

\* (SUMMARY|KEY DISCUSSION POINTS|...): the first alternative that matches at j, or 0
AlternativeAt(s, j) ==
    IF \E k \in 1..6 : LiteralAt(s, j, HeaderChars[k])
    THEN CHOOSE k \in 1..6 :
            /\ LiteralAt(s, j, HeaderChars[k])
            /\ \A k2 \in 1..(k - 1) : ~LiteralAt(s, j, HeaderChars[k2])
    ELSE 0

\* $ without re.MULTILINE: the end of the string, or before a newline that ends it
DollarAt(s, e) == e = Len(s) + 1 \/ (e = Len(s) /\ s[e] = "\n")

\* (?=\n#|$)
LookaheadAt(s, e) ==
    \/ e + 1 <= Len(s) /\ s[e] = "\n" /\ s[e + 1] = "#"
    \/ DollarAt(s, e)

\* (.*?) with re.DOTALL is lazy: the first position from p on where the lookahead holds
LazyEnd(s, p) ==
    CHOOSE e \in p..(Len(s) + 1) :
        /\ LookaheadAt(s, e)
        /\ \A e2 \in p..(e - 1) : ~LookaheadAt(s, e2)

NoMatch == [ok |-> FALSE, header |-> "", content |-> <<>>, end |-> 0]

\* one attempt of the pattern at position i
MatchAt(s, i) ==
    IF i > Len(s) \/ s[i] # "#" THEN NoMatch
    ELSE LET j == SkipWs(s, i + 1)
             k == AlternativeAt(s, j)
         IN  IF k = 0 THEN NoMatch
             ELSE LET p == SkipWs(s, j + Len(HeaderChars[k]))
                      e == LazyEnd(s, p)
                  IN  [ok |-> TRUE, header |-> HeaderNames[k],
                       content |-> SubSeq(s, p, e - 1), end |-> e]

\* re.findall(pattern, output, re.DOTALL) scanning from pos: the (header, content)
\* pairs of the non-overlapping matches, left to right
RECURSIVE findall(_, _)
findall(s, pos) ==
    IF pos > Len(s) THEN <<>>
    ELSE LET m == MatchAt(s, pos)
         IN  IF m.ok
             THEN <<[header |-> m.header, content |-> m.content]>> \o findall(s, m.end)
             ELSE findall(s, pos + 1)

\* content.strip()
strip(t) ==
    IF \A k \in 1..Len(t) : t[k] \in WS THEN <<>>
    ELSE LET lo == CHOOSE a \in 1..Len(t) :
                       t[a] \notin WS /\ \A k \in 1..(a - 1) : t[k] \in WS
             hi == CHOOSE b \in 1..Len(t) :
                       t[b] \notin WS /\ \A k \in (b + 1)..Len(t) : t[k] \in WS
         IN  SubSeq(t, lo, hi)

\* for header, content in matches: sections[header] = content.strip()
RECURSIVE AssignSections(_, _, _)
AssignSections(sections, matches, k) ==
    IF k > Len(matches) THEN sections
    ELSE AssignSections(
            [sections EXCEPT ![matches[k].header] = strip(matches[k].content)],
            matches, k + 1)

\* a parser that falls back to the whole text as the summary when nothing matches
parse_with_fallback(output) ==
    LET matches == findall(output, 1)
    IN  IF matches = <<>>
        THEN [EmptySections EXCEPT !["SUMMARY"] = strip(output)]
        ELSE AssignSections(EmptySections, matches, 1)

parse_final_output(output) ==
    AssignSections(EmptySections, findall(output, 1), 1)

(***************************************************************************)
(* Run-length encoded text: the corpus of the uploaded documents.          *)
(***************************************************************************)
Run(c, k) == <<[ch |-> c, n |-> k]>>

Newline == Run("\n", 1)

\* len(t)
RECURSIVE TLen(_)
TLen(t) == IF t = <<>> THEN 0 ELSE Head(t).n + TLen(Tail(t))

\* t[i - 1] of the Python string (positions from 1 here)
RECURSIVE CharAt(_, _)
CharAt(t, i) == IF i <= Head(t).n THEN Head(t).ch ELSE CharAt(Tail(t), i - Head(t).n)

\* t[:m]
RECURSIVE Slice(_, _)
Slice(t, m) ==
    IF m <= 0 \/ t = <<>> THEN <<>>
    ELSE IF Head(t).n <= m THEN <<Head(t)>> \o Slice(Tail(t), m - Head(t).n)
    ELSE Run(Head(t).ch, m)

\* not t.strip()
IsBlank(t) == \A k \in 1..Len(t) : t[k].ch \in WS

(***************************************************************************)
(* Uploaded files.  A text file carries the text its bytes decode to; a    *)
(* PDF carries what page.extract_text() returns for each page.             *)
(***************************************************************************)
TxtFile(t) == [type |-> "text/plain", text |-> t, pages |-> <<>>]
PdfFile(ps) == [type |-> "application/pdf", text |-> <<>>, pages |-> ps]

FileChoices ==
    { TxtFile(Run("A", 1)),
      TxtFile(Run("B", 1)),
      TxtFile(<<>>),
      TxtFile(Run(" ", 2)),
      TxtFile(Run("A", 99999)),
      TxtFile(Run("B", 60000) \o Newline \o Run("C", 1)),
      PdfFile(<<Run("A", 1), <<>>, Run("B", 1)>>) }

\* extract_pdf_text(file): pages that yield text contribute it and a newline
RECURSIVE extract_pdf_text(_)
extract_pdf_text(pages) ==
    IF pages = <<>> THEN <<>>
    ELSE (IF Head(pages) # <<>> THEN Head(pages) \o Newline ELSE <<>>)
         \o extract_pdf_text(Tail(pages))

\* what one file adds to full_text
FileText(f) ==
    IF f.type = "application/pdf"
    THEN extract_pdf_text(f.pages) \o Newline
    ELSE f.text \o Newline

\* full_text = ""; if uploaded: for f in uploaded: full_text += ...
RECURSIVE build(_)
build(files) ==
    IF files = <<>> THEN <<>>
    ELSE FileText(Head(files)) \o build(Tail(files))

\* a handler without the check for an empty corpus
NeverEmpty(ft) == FALSE

\* the button handler's check: not full_text.strip()
NothingToProcess(ft) == IsBlank(ft)

(***************************************************************************)
(* run_meeting_prep_crew.                                                  *)
(***************************************************************************)
MaxInputChars == 100000

\* a slice that keeps one character too many
TruncateOffByOne(ft) == Slice(ft, MaxInputChars + 1)

\* text = full_text[:100000]
Truncate(ft) == Slice(ft, MaxInputChars)

\* return "ERROR: GEMINI_API_KEY missing in environment."
KeyMissingMessage ==
    <<"E","R","R","O","R",":"," ","G","E","M","I","N","I","_","A","P","I","_",
      "K","E","Y"," ","m","i","s","s","i","n","g"," ","i","n"," ",
      "e","n","v","i","r","o","n","m","e","n","t",".">>

\* a task list with the compiler before the risk analyst
tasks_reordered == <<"summarizer", "points", "actions", "questions", "script", "risks">>

\* Crew(tasks=[t1, t2, t3, t4, t5, t6], process=Process.sequential), each task
\* named by its agent
tasks == <<"summarizer", "points", "actions", "questions", "risks", "script">>

\* the document text a task's description embeds: only t1's f-string holds {text}
TaskInput(k, txt) == IF k = 1 THEN txt ELSE <<>>

\* what the generation capability can raise
Causes == {"network", "quota"}

NoError == [kind |-> "none", step |-> "", cause |-> ""]

\* crew.kickoff() is called bare: what it raises leaves run_meeting_prep_crew and
\* the script unchanged, with no step name added
Uncaught(k, cause) == [kind |-> "Exception", step |-> "", cause |-> cause]

\* the texts a task may produce
Ok == <<"o", "k">>

\* "# " H "\n" body "\n"
Block(k, body) == <<"#", " ">> \o HeaderChars[k] \o <<"\n">> \o body \o <<"\n">>

\* the six blocks in canonical order
Report(bodies) ==
    Block(1, bodies[1]) \o Block(2, bodies[2]) \o Block(3, bodies[3])
    \o Block(4, bodies[4]) \o Block(5, bodies[5]) \o Block(6, bodies[6])

Letters == << <<"a">>, <<"b">>, <<"c">>, <<"d">>, <<"e">>, <<"f">> >>

\* what crew.kickoff() may return: an object with the attributes the code probes
\* (an attribute that is absent or falsy is <<>>) and its str()
CrewResult(ro, fo, o, s) == [raw_output |-> ro, final_output |-> fo, output |-> o, str |-> s]

CrewResults ==
    { CrewResult(<<>>, <<>>, <<>>, Report(Letters)),
      CrewResult(<<>>, <<>>, <<>>, Ok),
      CrewResult(Block(1, Ok), <<>>, <<>>, Ok),
      CrewResult(<<>>, Block(3, Ok), Ok, Ok),
      CrewResult(<<>>, <<>>, Block(6, Ok), <<>>) }

\* lines 195-204: the first truthy of raw_output, final_output, output, else str(result)
ResultString(r) ==
    IF r.raw_output # <<>> THEN r.raw_output
    ELSE IF r.final_output # <<>> THEN r.final_output
    ELSE IF r.output # <<>> THEN r.output
    ELSE r.str

(***************************************************************************)
(* The script.  Every interaction runs it from the top: the corpus is      *)
(* rebuilt, the button handler runs if the button was pressed, and the     *)
(* output display runs unless st.stop() or an exception ended the run.     *)
(***************************************************************************)
NotShown == [shown |-> FALSE, sections |-> EmptySections]

\* if "raw_output" in st.session_state: parsed = parse_final_output(raw); six text areas
Display(ss) ==
    IF ss.has THEN [shown |-> TRUE, sections |-> parse_final_output(ss.raw_output)]
    ELSE NotShown

NoSession == [has |-> FALSE, raw_output |-> <<>>]

\* st.session_state["raw_output"] = final_output
Store(final_output) == [has |-> TRUE, raw_output |-> final_output]

Init ==
    /\ env_key \in BOOLEAN
    /\ uploaded = <<>>
    /\ full_text = <<>>
    /\ clicks = 0
    /\ pc = "idle"
    /\ text = <<>>
    /\ calls = <<>>
    /\ results = <<>>
    /\ session_state = NoSession
    /\ message = "none"
    /\ error = NoError
    /\ parsed = NotShown

\* a script run without the button (the theme radio, a widget event)
Rerun ==
    /\ pc = "idle"
    /\ full_text' = build(uploaded)
    /\ message' = "none"
    /\ error' = NoError
    /\ parsed' = Display(session_state)
    /\ text' = <<>>
    /\ calls' = <<>>
    /\ results' = <<>>
    /\ UNCHANGED <<env_key, uploaded, clicks, pc, session_state>>

\* the user adds a file to the uploader: a script run without the button
Upload(f) ==
    /\ pc = "idle"
    /\ Len(uploaded) < MaxFiles
    /\ uploaded' = Append(uploaded, f)
    /\ full_text' = build(uploaded')
    /\ message' = "none"
    /\ error' = NoError
    /\ parsed' = Display(session_state)
    /\ text' = <<>>
    /\ calls' = <<>>
    /\ results' = <<>>
    /\ UNCHANGED <<env_key, clicks, pc, session_state>>

\* the user empties the uploader
ClearUploads ==
    /\ pc = "idle"
    /\ uploaded # <<>>
    /\ uploaded' = <<>>
    /\ full_text' = <<>>
    /\ message' = "none"
    /\ error' = NoError
    /\ parsed' = Display(session_state)
    /\ text' = <<>>
    /\ calls' = <<>>
    /\ results' = <<>>
    /\ UNCHANGED <<env_key, clicks, pc, session_state>>

\* "Run Agents" pressed: the handler up to crew.kickoff()
ClickRun ==
    /\ pc = "idle"
    /\ clicks < MaxClicks
    /\ clicks' = clicks + 1
    /\ full_text' = build(uploaded)
    /\ error' = NoError
    /\ UNCHANGED <<env_key, uploaded>>
    /\ IF NothingToProcess(full_text')
       THEN \* st.warning(...); st.stop()
            /\ message' = "warning"
            /\ parsed' = NotShown
            /\ text' = <<>>
            /\ calls' = <<>>
            /\ results' = <<>>
            /\ UNCHANGED <<pc, session_state>>
       ELSE IF ~env_key
       THEN \* run_meeting_prep_crew returns the message; it is stored and displayed
            /\ session_state' = Store(KeyMissingMessage)
            /\ message' = "success"
            /\ parsed' = Display(session_state')
            /\ text' = <<>>
            /\ calls' = <<>>
            /\ results' = <<>>
            /\ UNCHANGED pc
       ELSE \* the crew is built and kicked off under the spinner
            /\ pc' = "running"
            /\ text' = Truncate(full_text')
            /\ calls' = <<>>
            /\ results' = <<>>
            /\ message' = "spinner"
            /\ parsed' = NotShown
            /\ UNCHANGED session_state

\* the next task of the sequential crew, other than the last, produces its output
GenerateStep ==
    /\ pc = "running"
    /\ Len(calls) + 1 < Len(tasks)
    /\ LET k == Len(calls) + 1
       IN  /\ calls' = Append(calls, [task |-> tasks[k], input |-> TaskInput(k, text)])
           /\ results' = Append(results, Ok)
    /\ UNCHANGED <<env_key, uploaded, full_text, clicks, pc, text, session_state,
                   message, error, parsed>>

\* the last task produces the crew's result: kickoff returns, the string is stored,
\* st.success, and the output display runs
GenerateLast(r) ==
    /\ pc = "running"
    /\ Len(calls) + 1 = Len(tasks)
    /\ LET k == Len(calls) + 1
       IN  /\ calls' = Append(calls, [task |-> tasks[k], input |-> TaskInput(k, text)])
           /\ results' = Append(results, ResultString(r))
    /\ session_state' = Store(ResultString(r))
    /\ message' = "success"
    /\ parsed' = Display(session_state')
    /\ pc' = "idle"
    /\ UNCHANGED <<env_key, uploaded, full_text, clicks, text, error>>

\* the generation capability raises during the next task: the exception ends the
\* script run; line 233 and the output display are not reached
GenerateFails(cause) ==
    /\ pc = "running"
    /\ Len(calls) < Len(tasks)
    /\ LET k == Len(calls) + 1
       IN  /\ calls' = Append(calls, [task |-> tasks[k], input |-> TaskInput(k, text)])
           /\ error' = Uncaught(k, cause)
    /\ message' = "exception"
    /\ parsed' = NotShown
    /\ pc' = "idle"
    /\ UNCHANGED <<env_key, uploaded, full_text, clicks, text, results, session_state>>

Next ==
    \/ Rerun
    \/ \E f \in FileChoices : Upload(f)
    \/ ClearUploads
    \/ ClickRun
    \/ GenerateStep
    \/ \E r \in CrewResults : GenerateLast(r)
    \/ \E c \in Causes : GenerateFails(c)

Spec == Init /\ [][Next]_vars

(***************************************************************************)
(* The parser on the texts the last task may return.  SpecParse starts in  *)
(* the run of Spec in which one text file was uploaded and five tasks have *)
(* produced their outputs; the sixth returns any text of FinalOutputs.     *)
(***************************************************************************)
Lines ==
    { <<"#"," ","S","U","M","M","A","R","Y","\n">>,
      <<"#","S","U","M","M","A","R","Y","\n">>,
      <<"#"," ","s","u","m","m","a","r","y","\n">>,
      <<"#"," ","A","C","T","I","O","N"," ","I","T","E","M","S","\n">>,
      <<"b"," ","#"," ","A","C","T","I","O","N"," ","I","T","E","M","S"," ","c","\n">>,
      <<"a","\n">>,
      <<" ","d"," ">>,
      <<"#","x","\n">>,
      <<"\n">> }

\* the texts of at most n lines
RECURSIVE LineTexts(_)
LineTexts(n) ==
    IF n = 0 THEN {<<>>}
    ELSE LET shorter == LineTexts(n - 1)
         IN  shorter \cup {t \o l : t \in shorter, l \in Lines}

Bodies == { <<"a">>, <<"b"," ","c">>, <<>>, <<"a","\n","#","b">> }

Reports == {Report(bs) : bs \in [1..6 -> Bodies]}

FinalOutputs == LineTexts(MaxLines) \cup Reports

ParseResults == {CrewResult(<<>>, <<>>, <<>>, s) : s \in FinalOutputs}

InitParse ==
    /\ env_key = TRUE
    /\ uploaded = <<TxtFile(Run("A", 1))>>
    /\ full_text = build(uploaded)
    /\ clicks = 1
    /\ pc = "running"
    /\ text = Truncate(full_text)
    /\ calls = [k \in 1..5 |-> [task |-> tasks[k], input |-> TaskInput(k, text)]]
    /\ results = [k \in 1..5 |-> Ok]
    /\ session_state = NoSession
    /\ message = "spinner"
    /\ error = NoError
    /\ parsed = NotShown

NextParse == \E r \in ParseResults : GenerateLast(r)

SpecParse == InitParse /\ [][NextParse]_vars

\* the slot's text and the panels shown for it
raw == session_state.raw_output
Section(k) == parsed.sections[HeaderNames[k]]

(***************************************************************************)
(* The header grammar as the specification words it: a header is a line    *)
(* "# <HEADER>", and its body is all text up to the next such line or the  *)
(* end of the input.                                                       *)
(***************************************************************************)
Occurs(w, s) == \E i \in 1..Len(s) : LiteralAt(s, i, w)

HeaderLineAt(s, i, k) ==
    LET w == <<"#", " ">> \o HeaderChars[k]
    IN  /\ i = 1 \/ s[i - 1] = "\n"
        /\ LiteralAt(s, i, w)
        /\ i + Len(w) = Len(s) + 1 \/ s[i + Len(w)] = "\n"

HeaderLineStarts(s) == {i \in 1..Len(s) : \E k \in 1..6 : HeaderLineAt(s, i, k)}

LinesOf(s, k) == {i \in 1..Len(s) : HeaderLineAt(s, i, k)}

SetMin(S) == CHOOSE x \in S : \A y \in S : x <= y
SetMax(S) == CHOOSE x \in S : \A y \in S : x >= y

\* the body of header k's line that starts at i
BodyAfter(s, i, k) ==
    LET from == i + 2 + Len(HeaderChars[k])
        later == {j \in HeaderLineStarts(s) : j > i}
        to == IF later = {} THEN Len(s) ELSE SetMin(later) - 1
    IN  SubSeq(s, from, to)

HasText(t) == \E i \in 1..Len(t) : t[i] \notin WS

\* the six header lines, once each, in canonical order
SixInOrder(s) ==
    /\ \A k \in 1..6 : Cardinality(LinesOf(s, k)) = 1
    /\ \A k \in 1..5 : SetMin(LinesOf(s, k)) < SetMin(LinesOf(s, k + 1))

\* C1: a raw output with the six header lines in canonical order, each with a body
\* that holds text, is parsed into exactly the six trimmed bodies, a body being the
\* text up to the next header line or the end of the input.
C1_CanonicalReportYieldsTrimmedBodies ==
    (parsed.shown /\ SixInOrder(raw)
        /\ \A k \in 1..6 : HasText(BodyAfter(raw, SetMin(LinesOf(raw, k)), k)))
    => \A k \in 1..6 : Section(k) = strip(BodyAfter(raw, SetMin(LinesOf(raw, k)), k))

\* the body written between a header line and the newline that closes its block
WrittenBody(s, k) ==
    LET b == BodyAfter(s, SetMin(LinesOf(s, k)), k)
    IN  SubSeq(b, 2, Len(b) - 1)

\* C2: round trip: the text "# HEADER\nBODY\n" written for the six headers in order,
\* with bodies that hold no header line, parses back into the six bodies written.
C2_RoundTrip ==
    (parsed.shown /\ SixInOrder(raw)
        /\ raw = Report([k \in 1..6 |-> WrittenBody(raw, k)]))
    => \A k \in 1..6 : Section(k) = WrittenBody(raw, k)

\* C7: the parser returns, for every text, a mapping with exactly the six header
\* keys, and a header that does not occur in the text maps to the empty string.
C7_TotalSixKeysEmptyWhenAbsent ==
    /\ session_state.has /\ message = "success" => parsed.shown
    /\ parsed.shown =>
        /\ DOMAIN parsed.sections = Headers
        /\ \A k \in 1..6 : ~Occurs(HeaderChars[k], raw) => Section(k) = <<>>

\* a text with a marker but no header name: all six panels are empty
C7_Witness ==
    /\ parsed.shown
    /\ Occurs(<<"#">>, raw)
    /\ \A k \in 1..6 : ~Occurs(HeaderChars[k], raw) /\ Section(k) = <<>>

\* C8: when a header has more than one header line, its value is the trimmed body
\* of the last of them.
C8_DuplicateHeaderLastWins ==
    parsed.shown =>
        \A k \in 1..6 :
            Cardinality(LinesOf(raw, k)) >= 2
            => Section(k) = strip(BodyAfter(raw, SetMax(LinesOf(raw, k)), k))

\* a marker that is first on its line, followed by whitespace and then header k
LineLeadingHeaderAt(s, i, k) ==
    /\ s[i] = "#"
    /\ i = 1 \/ s[i - 1] = "\n"
    /\ i + 1 <= Len(s) /\ s[i + 1] \in WS
    /\ LiteralAt(s, SkipWs(s, i + 1), HeaderChars[k])

\* C10: a section gets a value only from a header whose marker is first on its line
\* and is followed by whitespace and the exact header name.
C10_HeaderOnlyLineLeadingWithSpace ==
    parsed.shown =>
        \A k \in 1..6 :
            Section(k) # <<>> => \E i \in 1..Len(raw) : LineLeadingHeaderAt(raw, i, k)

(***************************************************************************)
(* The run: credential, generation steps, failures, the corpus.            *)
(***************************************************************************)

\* C3: with the credential missing, no generation call is made, the run ends idle
\* with a message that is not the success message, and the slot never holds the
\* error text (so it is never parsed into the panels).
C3_MissingKeyIsErrorNotReport ==
    ~env_key =>
        /\ calls = <<>>
        /\ pc = "idle"
        /\ message # "success"
        /\ ~(session_state.has /\ session_state.raw_output = KeyMissingMessage)

\* C4: a generation failure ends the run with no further call, leaves the slot as
\* it was, and surfaces a GenerationError that names the failing step and its cause.
C4_GenerationFailureAborts ==
    [][(pc = "running" /\ message' = "exception")
        => /\ pc' = "idle"
           /\ Len(calls') = Len(calls) + 1
           /\ session_state' = session_state
           /\ error'.kind = "GenerationError"
           /\ error'.step = calls'[Len(calls')].task
           /\ error'.cause \in Causes]_vars

\* the six steps in the order the specification lists them
StepOrder == <<"summarizer", "points", "actions", "questions", "risks", "script">>

\* C5: the calls of a run are a prefix of the six steps in their fixed order, a step
\* is called only when every earlier step's result is available, and a run that
\* completes with the credential present has made exactly the six calls.
C5_SixCallsInFixedOrder ==
    /\ Len(calls) <= 6
    /\ \A i \in 1..Len(calls) : calls[i].task = StepOrder[i]
    /\ Len(results) <= Len(calls) /\ Len(calls) <= Len(results) + 1
    /\ pc = "running" => Len(results) = Len(calls)
    /\ (env_key /\ message = "success") => Len(calls) = 6 /\ Len(results) = 6

C5_Witness ==
    /\ env_key /\ message = "success" /\ pc = "idle"
    /\ Len(calls) = 6 /\ calls[6].task = "script"

\* C6: pressing the button with no document uploaded shows the warning, starts no
\* run, makes no generation call and leaves the slot as it was.
C6_NoDocumentsWarns ==
    [][(clicks' = clicks + 1 /\ uploaded = <<>>)
        => /\ message' = "warning"
           /\ pc' = "idle"
           /\ calls' = <<>>
           /\ session_state' = session_state]_vars

\* the warning shown with nothing uploaded while the slot holds an earlier result
C6_Witness ==
    /\ message = "warning" /\ uploaded = <<>> /\ clicks > 0
    /\ session_state.has /\ calls = <<>> /\ pc = "idle"

\* each file's decoded text followed by one newline, in upload order
RECURSIVE Corpus(_)
Corpus(files) ==
    IF files = <<>> THEN <<>>
    ELSE Corpus(SubSeq(files, 1, Len(files) - 1)) \o files[Len(files)].text \o Newline

\* the positions where a run of t begins
RunStarts(t) == {1 + TLen(SubSeq(t, 1, j - 1)) : j \in 1..Len(t)}

Min(a, b) == IF a <= b THEN a ELSE b

AllPlainText(files) == \A i \in 1..Len(files) : files[i].type = "text/plain"

\* C9: for plain-text uploads the text given to the first step is the first
\* min(L, 100000) characters of the corpus C of length L; files "A" then "B" give
\* "A\nB\n".
C9_FirstStepTextIsCappedCorpus ==
    (pc = "running" /\ Len(calls) >= 1 /\ AllPlainText(uploaded))
    => LET t == calls[1].input
           C == Corpus(uploaded)
       IN  /\ TLen(t) = Min(TLen(C), 100000)
           /\ TLen(t) <= 100000
           /\ \A i \in RunStarts(t) \cup {j \in RunStarts(C) : j <= TLen(t)} \cup {TLen(t)} :
                 i >= 1 => CharAt(t, i) = CharAt(C, i)
           /\ uploaded = <<TxtFile(Run("A", 1)), TxtFile(Run("B", 1))>>
              => t = Run("A", 1) \o Run("\n", 1) \o Run("B", 1) \o Run("\n", 1)

\* a first step whose corpus was longer than the cap
C9_Witness ==
    /\ pc = "running" /\ Len(calls) >= 1 /\ AllPlainText(uploaded)
    /\ TLen(Corpus(uploaded)) > 100000
    /\ TLen(calls[1].input) = 100000

====
